---- MODULE Spec2Model ----
(***************************************************************************)
(* Model of the outbound content delivery of tg-hydrus-import-bot:         *)
(* tg_parse_requests.send_content_from_response with the length probe      *)
(* (_stream_content), the video transcoder (_convert_video_to_mp4 over     *)
(* ffmpeg.get_io_mp4) and the image reducer (_resize_image).               *)
(*                                                                         *)
(* A byte buffer is a record [src, len]: src names where the bytes come    *)
(* from ("body" for the fetched response body, the preset name for an      *)
(* encoder output, "jpeg" for a re-encoded image), len is its byte length. *)
(* Two buffers are byte-identical iff the records are equal.               *)
(***************************************************************************)
EXTENDS Integers, Sequences, FiniteSets, TLC

MAX_FILE_SIZE == 50000000
MAX_PHOTO_SIZE == 10000000
STREAM_CHUNK_SIZE == 8388608

\* Python's None, in the shape of a buffer so that it compares with buffers.
None == [src |-> "None", len |-> 0]

\* Truthiness mistaken for `is not None`: b"" passes.
Truthy_NotNone(b) == b.src # "None"

\* Truthiness check dropped: every result passes.
Truthy_Always(b) == TRUE

\* Python truthiness of a `bytes | None` value: None and b"" are falsy.
Truthy(b) == b.src # "None" /\ b.len > 0

Min(a, b) == IF a <= b THEN a ELSE b
Max(a, b) == IF a >= b THEN a ELSE b

\* The presets of the loop in _convert_video_to_mp4, in its order.
Presets == <<"x264", "x265-gpu", "x265">>

(***************************************************************************)
(* Inputs.                                                                 *)
(***************************************************************************)
\* Content-Type values, split at the first "/": "major/sub". A missing header
\* reads as "" (both halves empty).
Mime(major, sub) == [major |-> major, sub |-> sub]
MimeTypes ==
    { Mime("video", "mp4"), Mime("video", "MP4"), Mime("video", "quicktime"),
      Mime("image", "gif"), Mime("image", "png"),
      Mime("audio", "mp3"), Mime("audio", "m4a"), Mime("audio", "ogg"),
      Mime("application", "zip"), Mime("", "") }

\* The subtype compared without .lower().
Lower_Identity(s) == s

\* str.lower() on the subtypes above.
Lower(s) == IF s = "MP4" THEN "mp4" ELSE s

\* Body lengths around the two ceilings and the sizes of the scenarios.
BodyLens ==
    { 0, 1, MAX_PHOTO_SIZE, MAX_PHOTO_SIZE + 1, 12000000,
      MAX_FILE_SIZE, MAX_FILE_SIZE + 1, 60000000, 70000000 }

\* The Content-Length header for a body of n bytes: absent (read as 0),
\* accurate, or smaller than the body (e.g. a Content-Encoding'd response,
\* whose header counts the encoded bytes and .content the decoded ones).
DeclaredFor(n) == {0, n} \cup {d \in BodyLens : 0 < d /\ d < n}

\* What one ffmpeg run gives: an exception (stderr output or a non-zero
\* exit) or the bytes of stdout.
EncLens == { 0, 48000000, MAX_FILE_SIZE, MAX_FILE_SIZE + 1 }
EncOutcomes ==
    { [fail |-> TRUE, len |-> 0] } \cup { [fail |-> FALSE, len |-> n] : n \in EncLens }

\* Decoded images: width and height; ok = FALSE is a body PIL cannot open.
Img(w, h, ok) == [w |-> w, h |-> h, ok |-> ok]
NoImg == Img(0, 0, FALSE)
Images == { NoImg, Img(1, 1, TRUE), Img(1000, 1000, TRUE), Img(4000, 3000, TRUE),
           Img(20000, 20, TRUE), Img(12000, 9000, TRUE) }

\* What saving one resized image as JPEG gives: an exception (e.g. a mode
\* JPEG cannot store) or the number of bytes written.
JpegLens == { 9800000, MAX_PHOTO_SIZE, MAX_PHOTO_SIZE + 1 }
JpegOutcomes ==
    { [fail |-> TRUE, len |-> 0] } \cup { [fail |-> FALSE, len |-> n] : n \in JpegLens }

\* The outcomes tried against a target: the lengths above that fit it, one
\* length just over it, and the exception.
JpegOutcomesFor(limit) ==
    { o \in JpegOutcomes : o.fail \/ o.len <= limit }
        \cup { [fail |-> FALSE, len |-> limit + 1] }

VARIABLES
    pc,              \* position inside send_content_from_response
    content_type,    \* Content-Type header
    declared,        \* Content-Length header (0 when absent)
    body,            \* actual length of the response body
    img,             \* the image the body decodes to
    content_length,  \* local content_length
    content,         \* local content
    streamed,        \* content.tell() of the BytesIO of _stream_content
    invoked,         \* presets handed to get_io_mp4 by the current transcode
    outcomes,        \* what each of those runs gave
    mp4_content,     \* what _async_convert(_convert_video_to_mp4) returned
    scale,           \* _resize_image: scale, in units of 1/100000
    pixel_size,      \* _resize_image: pixel_size
    attempts,        \* _resize_image: the new_size of every encoding attempt
    photo_content,   \* what _async_convert(_resize_image) returned
    reducer,         \* "none", "returned" or "raised": how the reducer ended
    answer_function, \* the chosen transport call
    sent,            \* sequence of transport calls made: [fn, buf]
    result,          \* "pending", "None" or "Message"
    max_size,        \* _resize_image: the parameter max_size
    encoded,         \* _resize_image: output.tell() of every JPEG it saved
    first_out,       \* what the first of two applications of _resize_image gave
    runs             \* how many applications of _resize_image have ended

\* The event loop, the tasks of the inbound messages and _FFMPEG_EXECUTOR.
VARIABLES
    task,            \* per message: where its handler task stands
    kind,            \* per message: what its delivery needs ("video", "photo", "plain")
    loop,            \* the task that runs on the event loop thread (0: none)
    queue,           \* work items submitted to _FFMPEG_EXECUTOR and not started
    running,         \* work items a worker process of the pool is executing
    enc,             \* per message: its ffmpeg subprocess or executor thread
    began            \* the transcodes under way when the latest message arrived

\* message_handler (start_script.py) for one inbound message.
VARIABLES
    h_pc,            \* where the handler stands
    msg,             \* the message: what it carries, and whether CONF enables it
    resp,            \* how many items the import returned (-1: not returned)
    idx,             \* how many items of resp the loop of line 181 has sent
    events           \* what the handler has done so far, in order

\* One SauceNAO client (saucenao_api.py) and the calls of its search.
VARIABLES
    s_pc,              \* where the search call stands
    attempt,           \* the loop variable of _make_request
    requests,          \* how many HTTP requests the client has issued
    now,               \* time.time(), in seconds
    daily_limit_time,  \* self.daily_limit_time
    wait_daily_limit,  \* self.wait_daily_limit
    cache,             \* what the cache holds for the input (None: nothing)
    calls,             \* how many search calls have been started
    answer,            \* the answer to the latest request of the call (None: none yet)
    s_result           \* what the latest search call returned or raised

\* One AsyncSauceNAO client (saucenao_api.py) in a process of its own.
VARIABLES
    a_pc,              \* where the search call stands
    a_calls,           \* how many search calls have been started
    a_requests,        \* how many HTTP requests the client has issued
    a_cache,           \* what the cache holds for the input (None: nothing)
    a_result           \* what the latest search call returned

\* The Hydrus wrapper (hydrus_requests.py): the access key's permissions, the
\* configured defaults, the arguments of the call in progress, its position,
\* the seconds gone since the URL was submitted, the polls of the current URL,
\* the calls made to the Hydrus client, what each operation returned, and the
\* list import_content builds.
VARIABLES
    hy_pc, permissions, default_tags_namespace,
    content_file, urls, tags, file_hash, url_idx, elapsed, polls,
    client_log, returns, added_file

\* The process (__main__.py): where the loop around main stands, the temp
\* folder, how the latest step of main ended, whether main paused since
\* start_script ended, and how many times main was called.
VARIABLES
    m_pc, folder, failure, slept, main_runs

deliveryVars ==
        << pc, content_type, declared, body, img, content_length, content,
           streamed, invoked, outcomes, mp4_content, scale, pixel_size,
           attempts, photo_content, reducer, answer_function, sent, result,
           max_size, encoded, first_out, runs >>

poolVars == << task, kind, loop, queue, running, enc, began >>

\* The state of the components a single delivery does not touch.
handlerVars == << h_pc, msg, resp, idx, events >>

sauceVars == << s_pc, attempt, requests, now, daily_limit_time,
               wait_daily_limit, cache, calls, answer, s_result >>

asyncVars == << a_pc, a_calls, a_requests, a_cache, a_result >>

\* The components added to the four above.
hydrusVars ==
    << hy_pc, permissions, default_tags_namespace,
       content_file, urls, tags, file_hash, url_idx, elapsed, polls,
       client_log, returns, added_file >>

mainVars == << m_pc, folder, failure, slept, main_runs >>

restVars == << asyncVars, hydrusVars, mainVars >>

otherVars == << poolVars, handlerVars, sauceVars, restVars >>

vars == << deliveryVars, otherVars >>

\* How many inbound messages are handled side by side.
NumMsgs == 3
Msgs == 1..NumMsgs

\* No message has arrived and the pool is empty.
PoolIdle ==
    /\ task = [m \in Msgs |-> "idle"]
    /\ kind = [m \in Msgs |-> "none"]
    /\ loop = 0
    /\ queue = << >>
    /\ running = {}
    /\ enc = [m \in Msgs |-> "none"]
    /\ began = {}

\* No message is being handled.
HandlerIdle ==
    /\ h_pc = "idle"
    /\ msg = [kind |-> "unknown", enabled |-> FALSE]
    /\ resp = -1
    /\ idx = 0
    /\ events = << >>

\* A moment of the present day, in seconds since the epoch.
StartTime == 1700000000

\* A client on which no search has been called.
SauceIdle ==
    /\ s_pc = "idle"
    /\ attempt = 0
    /\ requests = 0
    /\ now = StartTime
    /\ daily_limit_time = 0
    /\ wait_daily_limit = FALSE
    /\ cache = None
    /\ calls = 0
    /\ answer = None
    /\ s_result = None

\* An asynchronous client on which no search has been called.
AsyncIdle ==
    /\ a_pc = "idle"
    /\ a_calls = 0
    /\ a_requests = 0
    /\ a_cache = None
    /\ a_result = None

\* A wrapper on which no operation has been called.
HydrusIdle ==
    /\ hy_pc = "idle"
    /\ permissions = {}
    /\ default_tags_namespace = FALSE
    /\ content_file = FALSE
    /\ urls = << >>
    /\ tags = FALSE
    /\ file_hash = ""
    /\ url_idx = 0
    /\ elapsed = 0
    /\ polls = 0
    /\ client_log = << >>
    /\ returns = << >>
    /\ added_file = << >>

\* A process that has not reached its loop.
MainIdle ==
    /\ m_pc = "idle"
    /\ folder = "absent"
    /\ failure = "none"
    /\ slept = FALSE
    /\ main_runs = 0

RestIdle == AsyncIdle /\ HydrusIdle /\ MainIdle

OthersIdle == PoolIdle /\ HandlerIdle /\ SauceIdle /\ RestIdle

Body == [src |-> "body", len |-> body]

Init ==
    /\ pc = "headers"
    /\ content_type \in MimeTypes
    /\ body \in BodyLens
    /\ declared \in DeclaredFor(body)
    /\ img \in (IF content_type.major = "image" /\ content_type.sub # "gif"
                THEN Images ELSE {NoImg})
    /\ content_length = declared
    /\ content = None
    /\ streamed = 0
    /\ invoked = << >>
    /\ outcomes = << >>
    /\ mp4_content = None
    /\ scale = 0
    /\ pixel_size = 0
    /\ attempts = << >>
    /\ photo_content = None
    /\ reducer = "none"
    /\ answer_function = "unset"
    /\ sent = << >>
    /\ result = "pending"
    /\ max_size = MAX_PHOTO_SIZE
    /\ encoded = << >>
    /\ first_out = None
    /\ runs = 0
    /\ OthersIdle

\* What no step of a delivery changes: its inputs, and the state that belongs
\* to the other components.
inputVars == << content_type, declared, body, img, max_size, first_out, runs,
               otherVars >>
xcodeVars == << invoked, outcomes, mp4_content >>
imageVars == << scale, pixel_size, attempts, encoded, photo_content >>

(***************************************************************************)
(* send_content_from_response, lines 169-187: the headers and the body.    *)
(***************************************************************************)
\* `content_length > MAX_FILE_SIZE` of line 174.
OverLimit(n) == n > MAX_FILE_SIZE

ReadHeaders ==
    /\ pc = "headers"
    /\ IF OverLimit(content_length)
       THEN /\ result' = "None"
            /\ pc' = "done"
            /\ UNCHANGED << content, content_length >>
       ELSE IF content_length = 0
       THEN /\ pc' = "stream"
            /\ UNCHANGED << content, content_length, result >>
       ELSE /\ content' = Body
            /\ pc' = "classify"
            /\ UNCHANGED << content_length, result >>
    /\ UNCHANGED << inputVars, streamed, xcodeVars, imageVars, reducer,
                    answer_function, sent >>

\* The probe's test written with >= instead of >.
ProbeOver_Inclusive(n, limit) == n >= limit

\* `content.tell() > max_size` of _stream_content.
ProbeOver(n, limit) == n > limit

\* One iteration of the loop of _stream_content: the next chunk of at most
\* STREAM_CHUNK_SIZE bytes is written, then the size is checked.
StreamChunk ==
    /\ pc = "stream"
    /\ streamed < body
    /\ LET chunk == Min(STREAM_CHUNK_SIZE, body - streamed)
           told  == streamed + chunk
       IN /\ streamed' = told
          /\ IF ProbeOver(told, MAX_FILE_SIZE)
             THEN /\ result' = "None"
                  /\ pc' = "done"
             ELSE UNCHANGED << pc, result >>
    /\ UNCHANGED << inputVars, content, content_length, xcodeVars, imageVars,
                    reducer, answer_function, sent >>

\* The body is exhausted: _stream_content returns content.getvalue(), and
\* lines 181-185 take it when it is truthy.
StreamEnd ==
    /\ pc = "stream"
    /\ streamed = body
    /\ LET got == [src |-> "body", len |-> streamed]
       IN IF Truthy(got)
          THEN /\ content' = got
               /\ content_length' = got.len
               /\ pc' = "classify"
               /\ UNCHANGED result
          ELSE /\ result' = "None"
               /\ pc' = "done"
               /\ UNCHANGED << content, content_length >>
    /\ UNCHANGED << inputVars, streamed, xcodeVars, imageVars, reducer,
                    answer_function, sent >>

(***************************************************************************)
(* send_content_from_response, lines 191-218: the branch on Content-Type.  *)
(***************************************************************************)
\* image/gif not told apart from the other image types.
IsGif_Never(ct) == FALSE

IsVideo(ct) == ct.major = "video"

IsGif(ct) == ct.major = "image" /\ ct.sub = "gif"
IsImage(ct) == ct.major = "image"
IsAudio(ct) == ct.major = "audio" /\ ct.sub \in {"mp3", "m4a"}

\* `content_length <= MAX_PHOTO_SIZE` of line 206.
FitsPhoto(n) == n <= MAX_PHOTO_SIZE

Classify ==
    /\ pc = "classify"
    /\ IF IsVideo(content_type) \/ IsGif(content_type)
       THEN /\ pc' = "convert"
            /\ UNCHANGED answer_function
       ELSE IF IsImage(content_type)
       THEN IF FitsPhoto(content_length)
            THEN /\ answer_function' = "answer_photo"
                 /\ pc' = "send"
            ELSE /\ pc' = "resize"
                 /\ UNCHANGED answer_function
       ELSE IF IsAudio(content_type)
       THEN /\ answer_function' = "answer_audio"
            /\ pc' = "send"
       ELSE /\ answer_function' = "answer_document"
            /\ pc' = "send"
    /\ UNCHANGED << inputVars, content, content_length, streamed, xcodeVars,
                    imageVars, reducer, sent, result >>

(***************************************************************************)
(* _convert_video_to_mp4 under _async_convert.                             *)
(***************************************************************************)
\* The size test off by one byte.
FitsFile_OffByOne(n) == n <= MAX_FILE_SIZE + 1

\* `len(converted) <= MAX_FILE_SIZE` of line 113 (and of line 104).
FitsFile(n) == n <= MAX_FILE_SIZE

\* Lines 102-105: an mp4 within the limit is returned as it is.
ConvertBegin ==
    /\ pc = "convert"
    /\ IF Lower(content_type.sub) = "mp4" /\ FitsFile(content.len)
       THEN /\ mp4_content' = content
            /\ reducer' = "returned"
            /\ pc' = "converted"
       ELSE /\ pc' = "preset"
            /\ UNCHANGED << mp4_content, reducer >>
    /\ UNCHANGED << inputVars, content, content_length, streamed, invoked,
                    outcomes, imageVars, answer_function, sent, result >>

\* The loop skipping the hardware preset.
NextPreset_Skip(k) == Presets[IF k = 0 THEN 1 ELSE 3]

\* The preset the loop of line 107 hands to get_io_mp4 after k runs.
NextPreset(k) == Presets[k + 1]

\* One iteration of the loop of lines 107-114. get_io_mp4 raises when ffmpeg
\* fails; the exception leaves _convert_video_to_mp4 and _async_convert
\* (lines 96-98) turns it into None.
InvokePreset ==
    /\ pc = "preset"
    /\ \E o \in EncOutcomes :
        LET codec == NextPreset(Len(invoked))
        IN /\ invoked' = Append(invoked, codec)
           /\ outcomes' = Append(outcomes, o)
           /\ IF o.fail
              THEN /\ mp4_content' = None
                   /\ reducer' = "raised"
                   /\ pc' = "converted"
              ELSE IF FitsFile(o.len)
              THEN /\ mp4_content' = [src |-> codec, len |-> o.len]
                   /\ reducer' = "returned"
                   /\ pc' = "converted"
              ELSE IF Len(invoked') = Len(Presets)
              THEN /\ mp4_content' = None
                   /\ reducer' = "returned"
                   /\ pc' = "converted"
              ELSE UNCHANGED << mp4_content, reducer, pc >>
    /\ UNCHANGED << inputVars, content, content_length, streamed, imageVars,
                    answer_function, sent, result >>

\* Lines 193-202: what the video and the gif branch do with the result.
ConvertReturn ==
    /\ pc = "converted"
    /\ IF IsVideo(content_type)
       THEN IF Truthy(mp4_content)
            THEN /\ answer_function' = "answer_video"
                 /\ content' = mp4_content
            ELSE /\ answer_function' = "answer_document"
                 /\ UNCHANGED content
       ELSE /\ answer_function' = "answer_animation"
            /\ content' = IF Truthy(mp4_content) THEN mp4_content ELSE content
    /\ pc' = "send"
    /\ UNCHANGED << inputVars, content_length, streamed, xcodeVars, imageVars,
                    reducer, sent, result >>

(***************************************************************************)
(* _resize_image under _async_convert. The float `scale` is kept in fixed  *)
(* point, in units of 1/100000; scale_step = (2/3)**0.5 is 0.8165.         *)
(***************************************************************************)
\* floor(a * n / d) without leaving 32 bits.
MulDiv(a, n, d) == (a \div d) * n + ((a % d) * n) \div d

\* Lines 128-131: the starting scale.
StartScale(w, h) ==
    IF Max(w, h) # 0 THEN (10000 * 100000) \div Max(w, h) ELSE 100000

\* The scale left as it is after a failed attempt.
NextScale_Stuck(sc) == sc

\* Line 144: scale *= scale_step.
NextScale(sc) == MulDiv(sc, 8165, 10000)

\* Line 133: new_size = (int(original_width * scale), int(original_height * scale)).
NewSize(im, sc) == << (im.w * sc) \div 100000, (im.h * sc) \div 100000 >>

\* Line 132: scale > 0.001 and pixel_size > 1.
LoopGoesOn(sc, px) == sc > 100 /\ px > 1

\* The size test of the reducer off by one byte.
FitsTarget_OffByOne(n, limit) == n <= limit + 1

\* The size test of the reducer written with < instead of <=.
FitsTarget_Strict(n, limit) == n < limit

\* `output.tell() <= max_size` of line 142 (and `len(content) <= max_size`
\* of line 119).
FitsTarget(n, limit) == n <= limit

\* The bytes of a JPEG saved from a decoded buffer: an encoding of the
\* response body is "jpeg"; JPEG is lossy, so an encoding of anything else
\* is yet another buffer.
JpegOf(b) == IF b.src = "body" THEN "jpeg" ELSE "jpeg2"

\* Lines 119-131: the short cut, the decoding and the starting values.
ResizeBegin ==
    /\ pc = "resize"
    /\ IF FitsTarget(content.len, max_size)
       THEN /\ photo_content' = content
            /\ reducer' = "returned"
            /\ pc' = "resized"
            /\ UNCHANGED << scale, pixel_size >>
       ELSE IF ~img.ok
       THEN /\ photo_content' = None
            /\ reducer' = "raised"
            /\ pc' = "resized"
            /\ UNCHANGED << scale, pixel_size >>
       ELSE /\ pixel_size' = img.w * img.h
            /\ scale' = StartScale(img.w, img.h)
            /\ pc' = "attempt"
            /\ UNCHANGED << photo_content, reducer >>
    /\ UNCHANGED << inputVars, content, content_length, streamed, xcodeVars,
                    attempts, encoded, answer_function, sent, result >>

\* One test of the loop condition of line 132 and, when it holds, one
\* iteration (lines 133-145). PIL refuses to resize to an empty size, and
\* saving as JPEG may raise; line 148 turns every exception into None.
ResizeAttempt ==
    /\ pc = "attempt"
    /\ IF ~LoopGoesOn(scale, pixel_size)
       THEN /\ photo_content' = None
            /\ reducer' = "returned"
            /\ pc' = "resized"
            /\ UNCHANGED << scale, pixel_size, attempts, encoded >>
       ELSE LET new_size == NewSize(img, scale)
            IN /\ attempts' = Append(attempts, new_size)
               /\ IF new_size[1] = 0 \/ new_size[2] = 0
                  THEN /\ photo_content' = None
                       /\ reducer' = "raised"
                       /\ pc' = "resized"
                       /\ UNCHANGED << scale, pixel_size, encoded >>
                  ELSE \E o \in JpegOutcomesFor(max_size) :
                        IF o.fail
                        THEN /\ photo_content' = None
                             /\ reducer' = "raised"
                             /\ pc' = "resized"
                             /\ UNCHANGED << scale, pixel_size, encoded >>
                        ELSE /\ encoded' = Append(encoded, o.len)
                             /\ IF FitsTarget(o.len, max_size)
                                THEN /\ photo_content' = [src |-> JpegOf(content), len |-> o.len]
                                     /\ reducer' = "returned"
                                     /\ pc' = "resized"
                                     /\ UNCHANGED << scale, pixel_size >>
                                ELSE /\ scale' = NextScale(scale)
                                     /\ pixel_size' = new_size[1] * new_size[2]
                                     /\ UNCHANGED << photo_content, reducer, pc >>
    /\ UNCHANGED << inputVars, content, content_length, streamed, xcodeVars,
                    answer_function, sent, result >>

\* Lines 205-214: what the image branch does with the result.
ResizeReturn ==
    /\ pc = "resized"
    /\ IF Truthy(photo_content)
       THEN /\ answer_function' = "answer_photo"
            /\ content' = photo_content
       ELSE /\ answer_function' = "answer_document"
            /\ UNCHANGED content
    /\ pc' = "send"
    /\ UNCHANGED << inputVars, content_length, streamed, xcodeVars, imageVars,
                    reducer, sent, result >>

(***************************************************************************)
(* Lines 219-225: the transport call.                                      *)
(***************************************************************************)
Send ==
    /\ pc = "send"
    /\ sent' = Append(sent, [fn |-> answer_function, buf |-> content])
    /\ result' = "Message"
    /\ pc' = "done"
    /\ UNCHANGED << inputVars, content, content_length, streamed, xcodeVars,
                    imageVars, reducer, answer_function >>

Next ==
    \/ ReadHeaders
    \/ StreamChunk
    \/ StreamEnd
    \/ Classify
    \/ ConvertBegin
    \/ InvokePreset
    \/ ConvertReturn
    \/ ResizeBegin
    \/ ResizeAttempt
    \/ ResizeReturn
    \/ Send

Spec == Init /\ [][Next]_vars

TypeOK ==
    /\ pc \in {"headers", "stream", "classify", "convert", "preset", "converted",
               "resize", "attempt", "resized", "send", "done"}
    /\ result \in {"pending", "None", "Message"}
    /\ Len(sent) <= 1
    /\ Len(invoked) <= Len(Presets)

(***************************************************************************)
(* Shapes and helper predicates of the properties. They are written out    *)
(* here, apart from the operators the actions use.                         *)
(***************************************************************************)
PhotoType == content_type.major = "image" /\ content_type.sub # "gif"
VideoType == content_type.major = "video"
AnimationType == content_type.major = "image" /\ content_type.sub = "gif"
AudioType == content_type.major = "audio" /\ content_type.sub \in {"mp3", "m4a"}
DocumentType == ~PhotoType /\ ~VideoType /\ ~AnimationType /\ ~AudioType
Mp4Type == VideoType /\ content_type.sub \in {"mp4", "MP4"}

TheBody == [src |-> "body", len |-> body]
NonEmpty(b) == b.src # "None" /\ b.len >= 1
Oversized(o) == ~o.fail /\ o.len > 50000000
WithinTarget(o) == ~o.fail /\ o.len <= 50000000
TranscodeOver == pc \in {"converted", "send", "done"} /\ invoked # << >>
PresetOrder == << "x264", "x265-gpu", "x265" >>

\* C1 (as claimed): a body within the hard ceiling of shape Video, Animation,
\* Audio or GenericDocument is never replaced: what is sent is the body.
C1_AlwaysUnchanged ==
    (pc = "done" /\ body <= 50000000 /\ ~PhotoType /\ sent # << >>)
        => sent[1].buf = TheBody

\* C1 (amended): a non-empty body within the hard ceiling is sent, once;
\* for Audio, GenericDocument and video/mp4 it is sent unchanged and no
\* encoder runs; for any other video/* and for image/gif the transcoder
\* runs, and the body is sent unchanged exactly when the transcoder gave no
\* non-empty output.
C1_PassUnchanged ==
    (pc = "done" /\ 0 < body /\ body <= 50000000 /\ ~PhotoType)
        => /\ Len(sent) = 1
           /\ (AudioType \/ DocumentType \/ Mp4Type)
                => (sent[1].buf = TheBody /\ invoked = << >>)
           /\ ~(AudioType \/ DocumentType \/ Mp4Type)
                => /\ invoked # << >>
                   /\ (sent[1].buf = TheBody) <=> ~NonEmpty(mp4_content)
                   /\ NonEmpty(mp4_content) => sent[1].buf = mp4_content

C1_Witness ==
    /\ pc = "done"
    /\ content_type = Mime("video", "MP4")
    /\ body = 50000000
    /\ sent = << [fn |-> "answer_video", buf |-> TheBody] >>

\* C2: a Video body over the hard ceiling is handed to the transcoder, and
\* when a preset's output is within the ceiling the first such output is
\* sent as Video.
C2_OversizedVideoTranscoded ==
    (pc = "done" /\ VideoType /\ body > 50000000)
        => /\ invoked # << >>
           /\ \A i \in 1..Len(outcomes) :
                (WithinTarget(outcomes[i]) /\ outcomes[i].len > 0)
                    => sent = << [fn |-> "answer_video",
                                  buf |-> [src |-> invoked[i], len |-> outcomes[i].len]] >>

\* C3: a non-empty Photo body within the photo ceiling is sent unchanged as
\* Photo; over the photo ceiling, what is sent is a Photo of at most the
\* photo ceiling or a GenericDocument of at most the hard ceiling.
C3_PhotoBudget ==
    (pc = "done" /\ PhotoType)
        => /\ (0 < body /\ body <= 10000000)
                => sent = << [fn |-> "answer_photo", buf |-> TheBody] >>
           /\ (body > 10000000 /\ sent # << >>)
                => \/ sent[1].fn = "answer_photo" /\ sent[1].buf.len <= 10000000
                   \/ sent[1].fn = "answer_document" /\ sent[1].buf.len <= 50000000

\* C4: the presets run in the order x264, x265-gpu, x265 without skipping;
\* a preset runs only after each earlier one gave an oversized output; the
\* first output within the target is the result and no later preset runs.
C4_PresetOrder ==
    /\ Len(invoked) <= 3
    /\ Len(outcomes) = Len(invoked)
    /\ \A i \in 1..Len(invoked) :
        /\ invoked[i] = PresetOrder[i]
        /\ i < Len(invoked) => Oversized(outcomes[i])
        /\ WithinTarget(outcomes[i])
            => /\ i = Len(invoked)
               /\ pc # "preset"
               /\ mp4_content = [src |-> PresetOrder[i], len |-> outcomes[i].len]

C4_Witness ==
    /\ pc = "converted"
    /\ invoked = << "x264", "x265-gpu", "x265" >>
    /\ Oversized(outcomes[1]) /\ Oversized(outcomes[2])
    /\ mp4_content = [src |-> "x265", len |-> 48000000]

\* C5: one transcode never runs a preset twice (so it runs at most three),
\* and when every output is over the target it ends with None after
\* running each of the three presets exactly once.
C5_Exhaustion ==
    /\ \A i, j \in 1..Len(invoked) : invoked[i] = invoked[j] => i = j
    /\ Len(invoked) <= 3
    /\ (TranscodeOver /\ \A i \in 1..Len(outcomes) : Oversized(outcomes[i]))
        => /\ Len(invoked) = 3
           /\ {invoked[i] : i \in 1..3} = {"x264", "x265-gpu", "x265"}
           /\ mp4_content = None
           /\ reducer = "returned"

C5_Witness ==
    /\ pc = "converted"
    /\ Len(invoked) = 3
    /\ \A i \in 1..3 : Oversized(outcomes[i])
    /\ mp4_content = None

\* C6: a preset whose ffmpeg run fails is followed by the next preset of the
\* list; the transcode ends without a result only after all three ran.
C6_FailureTriesNext ==
    (TranscodeOver /\ \E i \in 1..Len(outcomes) : outcomes[i].fail)
        => (mp4_content = None => Len(invoked) = 3)

\* C7 (as claimed): with a body within the hard ceiling, a failed reducer
\* (no non-empty result) makes Video, Animation and Photo fall back to
\* GenericDocument with the original body; a reducer result is sent under
\* the shape of the content type.
C7_FallbackToDocument ==
    (pc = "done" /\ reducer # "none" /\ body <= 50000000 /\ sent # << >>)
        => LET out == IF PhotoType THEN photo_content ELSE mp4_content
               shape == IF PhotoType THEN "answer_photo"
                        ELSE IF VideoType THEN "answer_video"
                        ELSE "answer_animation"
           IN IF NonEmpty(out)
              THEN sent = << [fn |-> shape, buf |-> out] >>
              ELSE sent = << [fn |-> "answer_document", buf |-> TheBody] >>

\* C7 (amended): as claimed for Video and Photo; for Animation a failed
\* transcode sends the original body under the Animation shape.
C7_Fallback ==
    (pc = "done" /\ reducer # "none" /\ body <= 50000000)
        => LET out == IF PhotoType THEN photo_content ELSE mp4_content
               shape == IF PhotoType THEN "answer_photo"
                        ELSE IF VideoType THEN "answer_video"
                        ELSE "answer_animation"
           IN IF NonEmpty(out)
              THEN sent = << [fn |-> shape, buf |-> out] >>
              ELSE IF AnimationType
              THEN sent = << [fn |-> "answer_animation", buf |-> TheBody] >>
              ELSE sent = << [fn |-> "answer_document", buf |-> TheBody] >>

C7_Witness ==
    /\ pc = "done"
    /\ AnimationType
    /\ body <= 50000000
    /\ reducer = "raised"
    /\ sent = << [fn |-> "answer_animation", buf |-> TheBody] >>

\* C8: a GenericDocument or Audio body over the hard ceiling is not sent:
\* the delivery returns None without a transport call.
C8_OversizedRejected ==
    (pc = "done" /\ body > 50000000 /\ (DocumentType \/ AudioType))
        => (result = "None" /\ sent = << >>)

\* C9: an empty body, whatever its type, is never classified, reduced or
\* sent, and its delivery returns None.
C9_EmptyRejected ==
    body = 0
        => /\ pc \in {"headers", "stream", "done"}
           /\ sent = << >>
           /\ reducer = "none" /\ invoked = << >> /\ attempts = << >>
           /\ pc = "done" => result = "None"

C9_Witness ==
    /\ body = 0
    /\ pc = "done"
    /\ result = "None"
    /\ content_type = Mime("image", "png")

\* C10 (as claimed): the probe never holds more than the hard ceiling plus
\* one byte.
C10_HoldsCeilingPlusOne == streamed <= 50000000 + 1

\* C10 (amended): without a Content-Length the probe reads chunks of at most
\* STREAM_CHUNK_SIZE bytes and stops with the chunk that takes it over the
\* hard ceiling, so it never holds more than the ceiling plus one chunk; a
\* body of exactly the ceiling is accepted, one byte more is rejected.
C10_Probe ==
    /\ streamed <= 50000000 + 8388608
    /\ streamed > 50000000
        => (pc = "done" /\ result = "None" /\ sent = << >>
            /\ streamed - 50000000 <= 8388608 /\ streamed <= body)
    /\ (pc = "done" /\ declared = 0 /\ body = 50000000)
        => (result = "Message" /\ streamed = body /\ Len(sent) = 1)
    /\ (pc = "done" /\ declared = 0 /\ body = 50000000 + 1)
        => (result = "None" /\ sent = << >>)

C10_Witness ==
    /\ pc = "done"
    /\ declared = 0
    /\ streamed > 50000000 + 1
    /\ result = "None"

ShapeOfType ==
    IF VideoType THEN "answer_video"
    ELSE IF AnimationType THEN "answer_animation"
    ELSE IF PhotoType THEN "answer_photo"
    ELSE IF AudioType THEN "answer_audio"
    ELSE "answer_document"

C27_SentWithinCeilings ==
    \A i \in 1..Len(sent) :
        /\ sent[i].buf.len <= 50000000
        /\ sent[i].fn = "answer_photo" => sent[i].buf.len <= 10000000

\* C30: in every encoding attempt of _resize_image the width and the height
\* are at most those of the original image, and neither grows from one
\* attempt to the next.
C30_OnlyShrinks ==
    \A i \in 1..Len(attempts) :
        /\ attempts[i][1] <= img.w
        /\ attempts[i][2] <= img.h
        /\ i > 1 => /\ attempts[i][1] <= attempts[i - 1][1]
                    /\ attempts[i][2] <= attempts[i - 1][2]

(***************************************************************************)
(* _resize_image on its own: any input length, target and image, and a     *)
(* second application of the function to what the first one returned.      *)
(***************************************************************************)
ResizeLens == { 0, 1, 2, 9800000, MAX_PHOTO_SIZE, MAX_PHOTO_SIZE + 1, 12000000 }
ResizeTargets == { 1, 9800000, MAX_PHOTO_SIZE }
ResizeImages == Images \cup { Img(2, 1, TRUE), Img(3, 2, TRUE) }

InitResize ==
    /\ pc = "resize"
    /\ content_type = Mime("image", "png")
    /\ body \in ResizeLens
    /\ declared = body
    /\ img \in ResizeImages
    /\ content_length = body
    /\ content = Body
    /\ streamed = 0
    /\ invoked = << >>
    /\ outcomes = << >>
    /\ mp4_content = None
    /\ scale = 0
    /\ pixel_size = 0
    /\ attempts = << >>
    /\ photo_content = None
    /\ reducer = "none"
    /\ answer_function = "unset"
    /\ sent = << >>
    /\ result = "pending"
    /\ max_size \in ResizeTargets
    /\ encoded = << >>
    /\ first_out = None
    /\ runs = 0
    /\ OthersIdle

\* The function is called again on its own output (not None), with the same
\* max_size. A returned JPEG decodes to the size it was resized to.
Reapply ==
    /\ pc = "resized"
    /\ runs = 0
    /\ photo_content # None
    /\ first_out' = photo_content
    /\ runs' = 1
    /\ content' = photo_content
    /\ img' = IF attempts = << >> THEN img
              ELSE Img(attempts[Len(attempts)][1], attempts[Len(attempts)][2], TRUE)
    /\ pc' = "resize"
    /\ scale' = 0
    /\ pixel_size' = 0
    /\ attempts' = << >>
    /\ encoded' = << >>
    /\ photo_content' = None
    /\ reducer' = "none"
    /\ UNCHANGED << content_type, declared, body, content_length, streamed,
                    xcodeVars, answer_function, sent, result, max_size,
                    otherVars >>

NextResize ==
    \/ ResizeBegin
    \/ ResizeAttempt
    \/ Reapply

SpecResize == InitResize /\ [][NextResize]_vars

\* The reducer runs in an executor thread that is not held back.
SpecResizeFair == SpecResize /\ WF_vars(NextResize)

\* C16: an input within the target is returned as it is, with nothing decoded
\* and nothing encoded; and a second application to a returned buffer, with
\* the same target, returns that buffer.
C16_Idempotent ==
    /\ (pc = "resized" /\ content.len <= max_size)
        => /\ photo_content = content
           /\ reducer = "returned"
           /\ attempts = << >> /\ encoded = << >>
           /\ scale = 0 /\ pixel_size = 0
    /\ (pc = "resized" /\ runs = 1) => photo_content = first_out

C16_Witness ==
    /\ pc = "resized"
    /\ runs = 1
    /\ first_out = [src |-> "jpeg", len |-> 10000000]
    /\ max_size = 10000000
    /\ photo_content = first_out

\* C17: the search ends for every image and target: it makes at most 80
\* attempts, it returns None at the first test of the loop that finds the
\* scale at 0.001 or below or the pixel count at 1 or below, a loop that runs
\* out returns None for that reason, and the call always comes to its end.
C17_Terminates ==
    /\ [](Len(attempts) <= 80)
    /\ []((pc = "resized" /\ reducer = "returned" /\ photo_content = None)
            => (scale <= 100 \/ pixel_size <= 1))
    /\ [][(pc = "attempt" /\ (scale <= 100 \/ pixel_size <= 1))
            => (pc' = "resized" /\ photo_content' = None /\ attempts' = attempts)]_vars
    /\ <>[](pc = "resized")

C17_Witness ==
    /\ pc = "resized"
    /\ reducer = "returned"
    /\ photo_content = None
    /\ scale <= 100
    /\ pixel_size > 1
    /\ Len(attempts) > 30

(***************************************************************************)
(* Several deliveries side by side: one handler task per inbound message  *)
(* on the single event loop thread, the process pool _FFMPEG_EXECUTOR for  *)
(* _convert_video_to_mp4 and the loop's default executor for               *)
(* _resize_image.                                                          *)
(***************************************************************************)

\* Line 89: ProcessPoolExecutor(max_workers=2).
MAX_WORKERS == 2

Kinds == {"video", "photo", "plain"}

\* Line 94: the executor func is handed to, _FFMPEG_EXECUTOR for
\* _convert_video_to_mp4 and None (the default thread pool) otherwise.
ExecutorFor(k) == IF k = "video" THEN "_FFMPEG_EXECUTOR" ELSE "None"

\* The task keeps the loop thread until the future is done.
LoopAfterSubmit_Held(m) == m

\* Line 95: await loop.run_in_executor(...) suspends the task, the loop
\* thread is free for the other tasks.
LoopAfterSubmit(m) == 0

InQueue(m) == \E i \in 1..Len(queue) : queue[i] = m

Without(q, m) == SelectSeq(q, LAMBDA x : x # m)

\* Messages are numbered in the order of their arrival.
NextToArrive(m) ==
    /\ task[m] = "idle"
    /\ \A n \in Msgs : n < m => task[n] # "idle"

\* A message arrives: its handler task is created and runs on the loop.
Intake(m, k) ==
    /\ NextToArrive(m)
    /\ loop = 0
    /\ task' = [task EXCEPT ![m] = "running"]
    /\ kind' = [kind EXCEPT ![m] = k]
    /\ loop' = m
    /\ began' = running
    /\ UNCHANGED << deliveryVars, handlerVars, sauceVars, restVars, queue, running, enc >>

\* Lines 92-95: the task hands func to its executor and awaits the future.
\* A work item of the process pool waits in the pool's queue, one of the
\* default executor gets a thread.
CallExecutor(m) ==
    /\ task[m] = "running"
    /\ loop = m
    /\ kind[m] # "plain"
    /\ task' = [task EXCEPT ![m] = "awaiting"]
    /\ loop' = LoopAfterSubmit(m)
    /\ IF ExecutorFor(kind[m]) = "_FFMPEG_EXECUTOR"
       THEN /\ queue' = Append(queue, m)
            /\ UNCHANGED enc
       ELSE /\ enc' = [enc EXCEPT ![m] = "thread"]
            /\ UNCHANGED queue
    /\ UNCHANGED << deliveryVars, handlerVars, sauceVars, restVars, kind, running, began >>

\* Lines 207-221 with no conversion: the task awaits answer_function.
PlainSend(m) ==
    /\ task[m] = "running"
    /\ loop = m
    /\ kind[m] = "plain"
    /\ task' = [task EXCEPT ![m] = "sending"]
    /\ loop' = 0
    /\ UNCHANGED << deliveryVars, handlerVars, sauceVars, restVars, kind, queue, running, enc, began >>

\* A worker process is spawned for every work item.
WorkerFree_Always == TRUE

\* A process pool of max_workers processes: one of them is free.
WorkerFree == Cardinality(running) < MAX_WORKERS

\* A free worker process takes the oldest work item and calls
\* _convert_video_to_mp4, which runs ffmpeg (ffmpeg.py line 56).
PoolStart ==
    /\ queue # << >>
    /\ WorkerFree
    /\ LET m == Head(queue)
       IN /\ running' = running \cup {m}
          /\ queue' = Tail(queue)
          /\ enc' = [enc EXCEPT ![m] = "running"]
    /\ UNCHANGED << deliveryVars, handlerVars, sauceVars, restVars, task, kind, loop, began >>

\* Lines 100-115: _convert_video_to_mp4 returns, with a file or with None;
\* its ffmpeg runs have ended, the worker is free and the future is done.
EncoderExit(m) ==
    /\ m \in running
    /\ enc[m] = "running"
    /\ enc' = [enc EXCEPT ![m] = "exited"]
    /\ running' = running \ {m}
    /\ UNCHANGED << deliveryVars, handlerVars, sauceVars, restVars, task, kind, loop, queue, began >>

\* ffmpeg.py line 56: ff.run(content) carries no timeout, an ffmpeg that
\* never ends is waited for without end.
EncoderHang(m) ==
    /\ m \in running
    /\ enc[m] = "running"
    /\ enc' = [enc EXCEPT ![m] = "hung"]
    /\ UNCHANGED << deliveryVars, handlerVars, sauceVars, restVars, task, kind, loop, queue, running, began >>

\* _resize_image returns in its thread.
ThreadDone(m) ==
    /\ enc[m] = "thread"
    /\ enc' = [enc EXCEPT ![m] = "exited"]
    /\ UNCHANGED << deliveryVars, handlerVars, sauceVars, restVars, task, kind, loop, queue, running, began >>

\* Line 95 returns once the work item has ended: the task goes on to await
\* answer_function.
Resume(m) ==
    /\ task[m] = "awaiting"
    /\ enc[m] = "exited"
    /\ loop \in {0, m}
    /\ task' = [task EXCEPT ![m] = "sending"]
    /\ loop' = 0
    /\ UNCHANGED << deliveryVars, handlerVars, sauceVars, restVars, kind, queue, running, enc, began >>

\* answer_function returns.
SendDone(m) ==
    /\ task[m] = "sending"
    /\ task' = [task EXCEPT ![m] = "done"]
    /\ UNCHANGED << deliveryVars, handlerVars, sauceVars, restVars, kind, loop, queue, running, enc, began >>

\* The task is cancelled at an await. Line 96 catches Exception, which
\* CancelledError is not: the delivery ends there. The future is cancelled
\* with it: a work item not yet started leaves the queue, one that a worker
\* executes goes on.
Cancel(m) ==
    /\ task[m] \in {"awaiting", "sending"}
    /\ task' = [task EXCEPT ![m] = "cancelled"]
    /\ queue' = Without(queue, m)
    /\ loop' = IF loop = m THEN 0 ELSE loop
    /\ UNCHANGED << deliveryVars, handlerVars, sauceVars, restVars, kind, running, enc, began >>

\* No delivery is under way.
DeliveryIdle ==
    /\ pc = "done"
    /\ content_type = "text/plain"
    /\ declared = 0
    /\ body = 0
    /\ img = NoImg
    /\ content_length = 0
    /\ content = None
    /\ streamed = 0
    /\ invoked = << >>
    /\ outcomes = << >>
    /\ mp4_content = None
    /\ scale = 0
    /\ pixel_size = 0
    /\ attempts = << >>
    /\ photo_content = None
    /\ reducer = "idle"
    /\ answer_function = "none"
    /\ sent = << >>
    /\ result = "none"
    /\ max_size = MAX_PHOTO_SIZE
    /\ encoded = << >>
    /\ first_out = None
    /\ runs = 0

InitPool == DeliveryIdle /\ OthersIdle

NextPool ==
    \/ \E m \in Msgs, k \in Kinds : Intake(m, k)
    \/ \E m \in Msgs : CallExecutor(m)
    \/ \E m \in Msgs : PlainSend(m)
    \/ PoolStart
    \/ \E m \in Msgs : EncoderExit(m)
    \/ \E m \in Msgs : EncoderHang(m)
    \/ \E m \in Msgs : ThreadDone(m)
    \/ \E m \in Msgs : Resume(m)
    \/ \E m \in Msgs : SendDone(m)
    \/ \E m \in Msgs : Cancel(m)

SpecPool == InitPool /\ [][NextPool]_vars

\* Every step of the program is taken when it stays possible; messages need
\* not arrive, tasks need not be cancelled and an ffmpeg need not hang.
SpecPoolFair ==
    /\ SpecPool
    /\ \A m \in Msgs :
          /\ WF_vars(CallExecutor(m))
          /\ WF_vars(PlainSend(m))
          /\ WF_vars(EncoderExit(m))
          /\ WF_vars(ThreadDone(m))
          /\ WF_vars(Resume(m))
          /\ WF_vars(SendDone(m))
    /\ WF_vars(PoolStart)

TypeOKPool ==
    /\ task \in [Msgs -> {"idle", "running", "awaiting", "sending", "done", "cancelled"}]
    /\ kind \in [Msgs -> Kinds \cup {"none"}]
    /\ loop \in {0} \cup Msgs
    /\ running \subseteq Msgs
    /\ enc \in [Msgs -> {"none", "running", "hung", "thread", "exited"}]
    /\ began \subseteq Msgs

Ended(m) == task[m] \in {"done", "cancelled"}

Transcoding(m) == m \in running

\* C12: a delivery that awaits a conversion eventually returns.
C12_EventuallyReturns ==
    \A m \in Msgs : (task[m] = "awaiting") ~> Ended(m)

AllWorkersHung ==
    Cardinality({ w \in running : enc[w] = "hung" }) = 2

\* C13: at most two video transcodes run at once, only video transcodes
\* occupy the pool, and a transcode that waits is started or withdrawn
\* unless both workers are held by an ffmpeg that never ends.
C13_TwoWorkers ==
    /\ [](Cardinality(running) <= 2)
    /\ [](\A m \in running : kind[m] = "video")
    /\ [](\A m \in Msgs : InQueue(m) => kind[m] = "video" /\ m \notin running)
    /\ \A m \in Msgs : InQueue(m) ~> (~InQueue(m) \/ AllWorkersHung)

\* Two transcodes run, a third waited and was started after one ended.
C13_Witness ==
    \E a, b, c \in Msgs :
        /\ a # b /\ b # c /\ a # c
        /\ began = {a, b}
        /\ running = {a, c}
        /\ enc[b] = "exited"

\* C14: while a conversion of a message is queued or under way, its task
\* does not hold the event loop, and an idle message can be taken in as soon
\* as the loop is free.
C14_LoopFree ==
    \A m \in Msgs :
        (InQueue(m) \/ Transcoding(m) \/ enc[m] = "thread") =>
            /\ loop # m
            /\ \A n \in Msgs :
                  (NextToArrive(n) /\ loop = 0) => ENABLED Intake(n, "plain")

\* The latest message arrived while a transcode ran; its delivery is done
\* and that transcode still runs.
C14_Witness ==
    \E m, n \in Msgs :
        /\ m # n
        /\ Transcoding(m) /\ enc[m] = "running"
        /\ m \in began
        /\ task[n] = "done"
        /\ \A k \in Msgs : k > n => task[k] = "idle"

\* C15: once a delivery has ended, by return or by cancellation, no ffmpeg
\* of it is running.
C15_CancelStopsEncoder ==
    \A m \in Msgs : Ended(m) => enc[m] \notin {"running", "hung"}

(***************************************************************************)
(* message_handler of start_script.py: the handling of one inbound        *)
(* message, from its arrival to the confirmation reply.                    *)
(***************************************************************************)

\* How many items an import returns at most.
MaxItems == 2

MediaKinds == {"photo", "video", "animation", "video_note", "audio", "voice",
               "document"}

MsgKinds == MediaKinds \cup {"text", "unknown"}

\* The Content-Type hydrus.get_file answers with (line 183); "None" when the
\* header is missing.
ItemTypes == {"video/mp4", "image/gif", "image/png", "audio/mp3",
              "application/pdf", "None"}

\* Lines 187-197: the answer function of an item.
AnswerFunctionFor(ct) ==
    IF ct = "video/mp4" THEN "answer_video"
    ELSE IF ct = "image/gif" THEN "answer_animation"
    ELSE IF Len(ct) >= 6 /\ SubSeq(ct, 1, 6) = "image/" THEN "answer_photo"
    ELSE IF ct \in {"audio/mp3", "audio/m4a"} THEN "answer_audio"
    ELSE "answer_document"

\* The loop leaves the last item out.
MoreItems_StopEarly(i, n) == i < n - 1

\* Line 181: for resp_item in resp.
MoreItems(i, n) == i < n

Event(ev, item, fn) == << ev, item, fn >>

\* Lines 28-30, 56-60, 98-101, 138-140, 167-169: the type is switched off in
\* CONF["CONTENT_TYPES"]; the prepared answer is sent and the handler returns.
HandlerDisabled ==
    /\ h_pc = "start"
    /\ msg.kind # "unknown"
    /\ ~msg.enabled
    /\ events' = Append(events, Event("disabled", 0, ""))
    /\ h_pc' = "returned"
    /\ UNCHANGED << deliveryVars, poolVars, sauceVars, restVars, msg, resp, idx >>

\* Lines 36-37, 69-70, 110-115, 148-149, 171-172: get_tags_from_msg and
\* get_urls_from_msg.
HandlerExtract ==
    /\ h_pc = "start"
    /\ msg.kind # "unknown"
    /\ msg.enabled
    /\ events' = Append(events, Event("extract", 0, ""))
    /\ h_pc' = IF msg.kind = "text" THEN "import" ELSE "download"
    /\ UNCHANGED << deliveryVars, poolVars, sauceVars, restVars, msg, resp, idx >>

\* Lines 39-42, 72-75, 117-120, 151-154: await bot.download(...), which
\* returns or raises. Only the photo branch imports what it downloaded.
HandlerDownload ==
    /\ h_pc = "download"
    /\ \E ok \in BOOLEAN :
          IF ok
          THEN /\ events' = Append(events, Event("download", 0, ""))
               /\ h_pc' = IF msg.kind = "photo" THEN "import" ELSE "reply"
          ELSE /\ h_pc' = "raised"
               /\ UNCHANGED events
    /\ UNCHANGED << deliveryVars, poolVars, sauceVars, restVars, msg, resp, idx >>

\* Lines 44 and 174: HydrusRequests(hydrus).hydrus_import(...) returns the
\* list of the imported items, or raises.
HydrusImport ==
    /\ h_pc = "import"
    /\ \/ \E n \in 0..MaxItems :
             /\ resp' = n
             /\ events' = Append(events, Event("import", 0, ""))
             /\ h_pc' = IF msg.kind = "text" THEN "items" ELSE "reply"
       \/ /\ h_pc' = "raised"
          /\ UNCHANGED << resp, events >>
    /\ UNCHANGED << deliveryVars, poolVars, sauceVars, restVars, msg, idx >>

\* Lines 181-202, one round of the loop: the file of the item is fetched
\* (line 182, may raise), its answer function is chosen from the
\* Content-Type (a missing header raises at line 192) and the file is sent
\* (line 198, may raise).
HandlerSendItem ==
    /\ h_pc = "items"
    /\ MoreItems(idx, resp)
    /\ LET item == idx + 1
       IN \/ /\ h_pc' = "raised"
             /\ UNCHANGED << events, idx >>
          \/ \E ct \in ItemTypes, delivered \in BOOLEAN :
                LET fetched == Append(events, Event("get_file", item, ct))
                    fn == AnswerFunctionFor(ct)
                    chosen == Append(fetched, Event("classify", item, fn))
                IN IF ct = "None"
                   THEN /\ events' = fetched
                        /\ h_pc' = "raised"
                        /\ UNCHANGED idx
                   ELSE IF delivered
                   THEN /\ events' = Append(chosen, Event("content", item, fn))
                        /\ idx' = item
                        /\ UNCHANGED h_pc
                   ELSE /\ events' = chosen
                        /\ h_pc' = "raised"
                        /\ UNCHANGED idx
    /\ UNCHANGED << deliveryVars, poolVars, sauceVars, restVars, msg, resp >>

\* Lines 203-209: the reply is sent once the branch of the message type has
\* run through; a message of no known type gets the reply at once.
HandlerReply ==
    /\ \/ h_pc = "reply"
       \/ h_pc = "items" /\ ~MoreItems(idx, resp)
       \/ h_pc = "start" /\ msg.kind = "unknown"
    /\ events' = Append(events, Event("reply", 0, ""))
    /\ h_pc' = "returned"
    /\ UNCHANGED << deliveryVars, poolVars, sauceVars, restVars, msg, resp, idx >>

InitHandler ==
    /\ DeliveryIdle
    /\ PoolIdle
    /\ SauceIdle
    /\ RestIdle
    /\ h_pc = "start"
    /\ msg \in [kind : MsgKinds, enabled : BOOLEAN]
    /\ resp = -1
    /\ idx = 0
    /\ events = << >>

NextHandler ==
    \/ HandlerDisabled
    \/ HandlerExtract
    \/ HandlerDownload
    \/ HydrusImport
    \/ HandlerSendItem
    \/ HandlerReply

SpecHandler == InitHandler /\ [][NextHandler]_vars

Happened(ev) == { i \in 1..Len(events) : events[i][1] = ev }

MAX_RETRIES == 30
RETRY_DELAY == 5

\* 24*3600 of line 237.
DayLength == 86400

\* How many times search is called.
MaxCalls == 2

\* header.status of an answer: 0 for success, -2 for too many requests,
\* other values for other failures.
Statuses == {0, -2, -1, 1}

\* header.message of an answer; "" stands for an answer without one
\* (header.get("message", "")).
Messages == {"",
             "Daily Search Limit Exceeded",
             "<strong>Daily Search Limit Exceeded.</strong> Try again later",
             "Search Rate Too High.",
             "daily search limit exceeded",
             "Daily Search Limit",
             "Daily Limit Exceeded"}

\* What one request can end in: a body that is a JSON object with a header
\* ("json", with how many results pass the similarity filter of line 189),
\* an empty JSON object, a body that is no JSON or no object, HTTP 413,
\* another HTTP error status (the body is not read), a failed request.
Answers ==
    { r \in [kind : {"json"}, status : Statuses, message : Messages,
             results : 0..1] :
         IF r.status = 0 THEN r.message = "" ELSE r.results = 0 }
    \cup { [kind |-> k, status |-> 0, message |-> "", results |-> 0] :
              k \in {"empty_object", "invalid_json", "not_object", "http_413",
                     "http_error", "request_failed"} }

\* t is found at the start of s.
Contains_AtStart(s, t) ==
    Len(s) >= Len(t) /\ SubSeq(s, 1, Len(t)) = t

\* Line 104: t in s.
Contains(s, t) ==
    \E i \in 1..(Len(s) - Len(t) + 1) : SubSeq(s, i, i + Len(t) - 1) = t

\* Lines 102-105: SauceNaoTooManyRequests(message).
SauceNaoTooManyRequests(message) ==
    [exc |-> "SauceNaoTooManyRequests", status |-> -2, message |-> message,
     daily_limit |-> Contains(message, "Daily Search Limit Exceeded")]

\* Lines 93-97: SauseNAOException(status, message).
SauseNAOException(status, message) ==
    [exc |-> "SauseNAOException", status |-> status, message |-> message]

Returned(n) == [results |-> n]

\* Lines 175-191: resp_handle raises on a status other than 0 and returns
\* the results otherwise.
resp_handle(json_resp) ==
    IF json_resp.status = -2
    THEN SauceNaoTooManyRequests(json_resp.message)
    ELSE IF json_resp.status # 0
    THEN SauseNAOException(json_resp.status, json_resp.message)
    ELSE Returned(json_resp.results)

Raises(r) == "exc" \in DOMAIN r

\* Line 237: the time left of the 24 hours after daily_limit_time.
RemainingTime == daily_limit_time + DayLength - now

\* search (lines 223-233) up to the first request: the cache of lines 305 and
\* 320 answers for an input it holds; otherwise _handle_rate_limit (lines
\* 235-245) waits or ends the search with [] (which the cache then holds)
\* while the daily limit lasts; otherwise _make_request begins.
SearchCall ==
    /\ s_pc \in {"idle", "returned", "raised"}
    /\ calls < MaxCalls
    /\ calls' = calls + 1
    /\ IF cache # None
       THEN /\ s_result' = cache
            /\ s_pc' = "returned"
            /\ UNCHANGED << attempt, now, cache >>
       ELSE IF RemainingTime > 0 /\ ~wait_daily_limit
       THEN /\ s_result' = Returned(0)
            /\ cache' = Returned(0)
            /\ s_pc' = "returned"
            /\ UNCHANGED << attempt, now >>
       ELSE /\ now' = IF RemainingTime > 0 THEN now + RemainingTime ELSE now
            /\ attempt' = 0
            /\ s_result' = None
            /\ s_pc' = "request"
            /\ UNCHANGED cache
    /\ answer' = None
    /\ UNCHANGED << deliveryVars, poolVars, handlerVars, restVars, requests,
                    daily_limit_time, wait_daily_limit >>

\* The same pause after every failed round.
SleepTime_Flat(att) == RETRY_DELAY

\* Line 281: sleep_time = self.RETRY_DELAY * (attempt + 1).
SleepTime(att) == RETRY_DELAY * (att + 1)

\* One round of the loop of _make_request (lines 249-283) and, when the loop
\* ends, the rest of _execute_search (lines 289-291). A JSON object is
\* returned to _execute_search, where resp_handle runs outside the try of
\* line 251; a body that is no JSON object raises ValueError or TypeError;
\* HTTP 413 and the last failed round end the search with []; any other
\* failed round sleeps RETRY_DELAY * (attempt + 1) and goes on.
MakeRequest ==
    /\ s_pc = "request"
    /\ requests' = requests + 1
    /\ \E ans \in Answers :
          /\ answer' = ans
          /\ IF ans.kind = "json"
             THEN /\ s_result' = resp_handle(ans)
                  /\ s_pc' = IF Raises(s_result') THEN "raised" ELSE "returned"
                  /\ cache' = IF Raises(s_result') THEN cache ELSE s_result'
                  /\ UNCHANGED << attempt, now >>
             ELSE IF ans.kind \in {"invalid_json", "not_object"}
             THEN /\ s_result' = [exc |-> IF ans.kind = "invalid_json"
                                          THEN "ValueError" ELSE "TypeError"]
                  /\ s_pc' = "raised"
                  /\ UNCHANGED << attempt, now, cache >>
             ELSE IF \/ ans.kind \in {"empty_object", "http_413"}
                     \/ attempt = MAX_RETRIES - 1
             THEN /\ s_result' = Returned(0)
                  /\ cache' = Returned(0)
                  /\ s_pc' = "returned"
                  /\ UNCHANGED << attempt, now >>
             ELSE /\ now' = now + SleepTime(attempt)
                  /\ attempt' = attempt + 1
                  /\ UNCHANGED << s_pc, s_result, cache >>
    /\ UNCHANGED << deliveryVars, poolVars, handlerVars, restVars, daily_limit_time,
                    wait_daily_limit, calls >>

\* Lines 117-132: a new client, with wait_daily_limit as the caller chose.
InitSauce ==
    /\ DeliveryIdle
    /\ PoolIdle
    /\ HandlerIdle
    /\ RestIdle
    /\ s_pc = "idle"
    /\ attempt = 0
    /\ requests = 0
    /\ now = StartTime
    /\ daily_limit_time = 0
    /\ wait_daily_limit \in BOOLEAN
    /\ cache = None
    /\ calls = 0
    /\ answer = None
    /\ s_result = None

NextSauce == SearchCall \/ MakeRequest

SpecSauce == InitSauce /\ [][NextSauce]_vars

\* Every request ends: requests.request carries timeout = self.TIMEOUT
\* (line 256) and every sleep is finite.
SpecSauceFair == SpecSauce /\ WF_vars(MakeRequest)

\* The messages of Messages that contain "Daily Search Limit Exceeded".
DailyLimitMessages ==
    {"Daily Search Limit Exceeded",
     "<strong>Daily Search Limit Exceeded.</strong> Try again later"}

DailyLimitReported ==
    /\ s_pc = "raised"
    /\ s_result.exc = "SauceNaoTooManyRequests"
    /\ s_result.daily_limit

\* C21: once the service has reported the daily limit, daily_limit_time
\* holds the time of the report, and a search started on a client with
\* wait_daily_limit = False before 24 hours have passed returns an empty
\* result without a request.
C21_DailyLimitRecorded ==
    /\ [](DailyLimitReported => daily_limit_time = now)
    /\ [][(DailyLimitReported /\ ~wait_daily_limit /\ calls' = calls + 1
             /\ now' - now < 86400)
            => (s_pc' = "returned" /\ s_result' = Returned(0)
                  /\ requests' = requests)]_vars

FailedAnswer(ans) == ans.kind \in {"http_error", "request_failed"}

\* C22: a search call makes at most 30 requests and ends: an answer with a
\* successful HTTP status ends it at once, so does HTTP 413 with an empty
\* result; after a failed request the call sleeps 5 * (attempt + 1) seconds
\* and asks again, except after the 30th, where it returns an empty result
\* without a sleep.
C22_BoundedRetries ==
    /\ [](attempt \in 0..29)
    /\ [][requests' # requests =>
            /\ s_pc = "request"
            /\ requests' = requests + 1
            /\ ~FailedAnswer(answer') =>
                  /\ s_pc' \in {"returned", "raised"}
                  /\ now' = now
                  /\ attempt' = attempt
            /\ answer'.kind = "http_413" =>
                  /\ s_pc' = "returned"
                  /\ s_result' = Returned(0)
            /\ (answer'.kind = "json" /\ answer'.status = 0) =>
                  /\ s_pc' = "returned"
                  /\ s_result' = Returned(answer'.results)
            /\ (FailedAnswer(answer') /\ attempt < 29) =>
                  /\ s_pc' = "request"
                  /\ attempt' = attempt + 1
                  /\ now' = now + 5 * (attempt + 1)
            /\ (FailedAnswer(answer') /\ attempt = 29) =>
                  /\ s_pc' = "returned"
                  /\ s_result' = Returned(0)
                  /\ now' = now]_vars
    /\ [][s_pc' = "request" /\ s_pc # "request" => attempt' = 0]_vars
    /\ (s_pc = "request") ~> (s_pc \in {"returned", "raised"})

\* Thirty failed requests in one call: 5 + 10 + ... + 145 seconds of sleep
\* and an empty result.
C22_Witness ==
    /\ s_pc = "returned"
    /\ calls = 1
    /\ requests = 30
    /\ attempt = 29
    /\ FailedAnswer(answer)
    /\ s_result = Returned(0)
    /\ now = StartTime + 2175

\* C28: after a search that ended with an empty result on a failed request,
\* on HTTP 413, on exhausted retries or on an active daily limit, the next
\* search for the same input issues a request.
C28_EmptyNotRemembered ==
    [][(/\ s_pc = "returned"
        /\ s_result = Returned(0)
        /\ answer # None
        /\ answer.kind \in {"http_413", "http_error", "request_failed"}
        /\ calls' = calls + 1)
          => s_pc' = "request"]_vars

(***************************************************************************)
(* AsyncSauceNAO.search of saucenao_api.py, beside the synchronous client: *)
(* both are given the same input and each has a cache of its own.          *)
(***************************************************************************)

coreVars == << deliveryVars, poolVars, handlerVars, sauceVars >>

\* Lines 465 and 480: `if self._handle_rate_limit():` tests the coroutine
\* object the async method returns without awaiting it, and a coroutine
\* object is true.
AsyncRateLimited == TRUE

\* AsyncSauceNAO.search (lines 373-383) with search_url or search_file
\* (lines 456-486): the cache answers for an input it holds; otherwise the
\* test of the rate limit is true and [] is returned, which the cache then
\* holds. _execute_search is not reached.
AsyncSearchCall ==
    /\ a_pc \in {"idle", "returned"}
    /\ a_calls < MaxCalls
    /\ AsyncRateLimited
    /\ a_calls' = a_calls + 1
    /\ IF a_cache # None
       THEN /\ a_result' = a_cache
            /\ UNCHANGED a_cache
       ELSE /\ a_result' = Returned(0)
            /\ a_cache' = Returned(0)
    /\ a_pc' = "returned"
    /\ UNCHANGED << coreVars, hydrusVars, mainVars, a_requests >>

InitAsync == InitSauce

NextAsync == SearchCall \/ MakeRequest \/ AsyncSearchCall

SpecAsync == InitAsync /\ [][NextAsync]_vars

\* C29: when both clients have ended the same number of search calls, the
\* asynchronous one has issued as many requests as the synchronous one and
\* its latest call gave the same result or raised the same condition.
C29_AsyncAsSync ==
    (s_pc \in {"returned", "raised"} /\ a_pc = "returned" /\ a_calls = calls)
        => (a_requests = requests /\ a_result = s_result)

\* ---------------------------------------------------------------------
\* The Hydrus wrapper (hydrus_requests.py): import_content and the
\* operations it is made of, and get_file.
\* ---------------------------------------------------------------------

\* HydrusPermission (hydrus_api_enums.py).
URL_IMPORT_EDIT == 0
FILES_IMPORT_DELETE == 1
TAGS_EDIT == 2
FILES_SEARCH_FETCH == 3
PAGES == 4

HydrusPermissions ==
    { URL_IMPORT_EDIT, FILES_IMPORT_DELETE, TAGS_EDIT, FILES_SEARCH_FETCH, PAGES }

\* AddedFileStatus (hydrus_api_enums.py): the status field of the store's
\* answer to an import.
SUCCESSFULLY_IMPORTED == 1
ALREADY_IN_DATABASE == 2
PREVIOUSLY_DELETED == 3
FAILED_TO_IMPORT == 4
VETOED == 7

AddedFileStatus ==
    { SUCCESSFULLY_IMPORTED, ALREADY_IN_DATABASE, PREVIOUSLY_DELETED,
      FAILED_TO_IMPORT, VETOED }

\* The store knows no status: an empty url_file_statuses.
NoStatus == 0

\* What get_url_files may answer before the URL is submitted, and after.
KnownStatuses == { NoStatus, ALREADY_IN_DATABASE }
UrlStatuses == { NoStatus, SUCCESSFULLY_IMPORTED }

\* The URLs a message may carry, and how many of them.
Urls == { "https://a/img", "https://a/video" }
MaxUrls == 2
UrlLists == UNION { [1..n -> Urls] : n \in 0..MaxUrls }

\* The hash the store gives the file passed directly.
FileHash == "file"

\* Python's None as an operation's return value, and a store answer.
Nothing == [status |-> NoStatus, hash |-> ""]
Added(status, hash) == [status |-> status, hash |-> hash]

check_permission_Always(permission) == TRUE

check_permission(permission) == permission \in permissions

\* One call to the Hydrus client made by operation op, and one return of op.
ClientCall(op, call, arg) == [op |-> op, call |-> call, arg |-> arg]
Return(op, arg, value) == [op |-> op, arg |-> arg, value |-> value]

\* get_tags_namespace_hash gives a service key when one of four permissions
\* is held and a namespace is configured; only then it asks the client.
NamespaceKnown ==
    /\ { FILES_IMPORT_DELETE, TAGS_EDIT, PAGES, FILES_SEARCH_FETCH }
           \cap permissions # {}
    /\ default_tags_namespace

\* The client calls of building additional_tags, on behalf of op.
additional_tags(op, arg) ==
    IF NamespaceKnown
    THEN << ClientCall(op, "get_service", arg), ClientCall(op, "clean_tags", arg) >>
    ELSE << >>

\* The client calls of add_tags(hash, tags).
add_tags(hash) ==
    IF ~check_permission(TAGS_EDIT) THEN << >>
    ELSE IF hash = "" \/ ~tags THEN << >>
    ELSE additional_tags("add_tags", hash)
             \o << ClientCall("add_tags", "add_tags", hash) >>

\* The client calls of add_urls(hash, urls).
add_urls(hash) ==
    IF ~check_permission(URL_IMPORT_EDIT) THEN << >>
    ELSE IF hash = "" \/ urls = << >> THEN << >>
    ELSE << ClientCall("add_urls", "associate_url", hash) >>

\* The client calls of add_file once the permission is held: the import,
\* then the page lookup when a destination page is configured (the wrapper
\* reads that setting here and nowhere else) and the hand-over to the page
\* when one is found.
add_file(destination_page_name, page_found) ==
    << ClientCall("add_file", "add_file", FileHash) >>
        \o (IF destination_page_name /\ check_permission(PAGES)
            THEN << ClientCall("add_file", "get_pages", FileHash) >>
                     \o (IF page_found
                         THEN << ClientCall("add_file", "add_files_to_page", FileHash) >>
                         ELSE << >>)
            ELSE << >>)

TimeoutLength_Flat(url) == 60

TimeoutLength(url) == IF Contains(url, "video") THEN 60 * 10 ELSE 60

TimeoutSleep(url) == IF Contains(url, "video") THEN 30 ELSE 2

\* list.insert(0, item)
Insert0(list, item) == << item >> \o list

hydrusConfig ==
    << permissions, default_tags_namespace,
       content_file, urls, tags, file_hash >>

\* The loop over urls moves on to the next URL, or to the file.
NextUrl ==
    /\ url_idx' = url_idx + 1
    /\ hy_pc' = IF url_idx < Len(urls) THEN "url" ELSE "file"

\* add_file_from_url up to the submission of the URL.
AddFileFromUrl ==
    /\ hy_pc = "url"
    /\ LET url == urls[url_idx] IN
       IF ~check_permission(URL_IMPORT_EDIT)
       THEN /\ returns' = Append(returns, Return("add_file_from_url", url, Nothing))
            /\ NextUrl
            /\ UNCHANGED << client_log, elapsed, polls, added_file >>
       ELSE \E pre \in KnownStatuses :
                LET op == "add_file_from_url"
                    prepared == IF tags /\ check_permission(TAGS_EDIT)
                                THEN additional_tags(op, url)
                                ELSE << >>
                    present == tags /\ pre = ALREADY_IN_DATABASE
                IN  /\ client_log' =
                           client_log \o prepared
                               \o << ClientCall(op, "get_url_files", url) >>
                               \o (IF present THEN add_tags(url) ELSE << >>)
                               \o << ClientCall(op, "add_url", url) >>
                    /\ returns' = IF present
                                  THEN Append(returns, Return("add_tags", url, Nothing))
                                  ELSE returns
                    /\ hy_pc' = "poll"
                    /\ elapsed' = 0
                    /\ polls' = 0
                    /\ UNCHANGED << url_idx, added_file >>
    /\ UNCHANGED << coreVars, asyncVars, mainVars, hydrusConfig >>

\* One round of the polling loop of add_file_from_url: the test of the
\* clock, the question to the store, and the sleep or the return. The
\* call's locals (its clock, its count of polls) end with the call.
PollRound ==
    /\ hy_pc = "poll"
    /\ LET url == urls[url_idx] IN
       IF elapsed < TimeoutLength(url)
       THEN \E seen \in UrlStatuses \cup { -1 } :
                IF seen = -1
                THEN /\ hy_pc' = "raised"
                     /\ polls' = polls + 1
                     /\ UNCHANGED << url_idx, elapsed, returns, added_file >>
                ELSE IF seen # NoStatus
                THEN /\ returns' = Append(returns,
                             Return("add_file_from_url", url, Added(seen, url)))
                     /\ added_file' = Append(added_file, Added(seen, url))
                     /\ NextUrl
                     /\ elapsed' = 0
                     /\ polls' = 0
                ELSE /\ elapsed' = elapsed + TimeoutSleep(url)
                     /\ polls' = polls + 1
                     /\ UNCHANGED << hy_pc, url_idx, returns, added_file >>
       ELSE /\ returns' = Append(returns, Return("add_file_from_url", url, Nothing))
            /\ NextUrl
            /\ elapsed' = 0
            /\ polls' = 0
            /\ UNCHANGED added_file
    /\ UNCHANGED << coreVars, asyncVars, mainVars, hydrusConfig, client_log >>

\* The rest of import_content: the file itself, then its tags and URLs.
AddFile ==
    /\ hy_pc = "file"
    /\ IF ~content_file
       THEN /\ hy_pc' = "returned"
            /\ UNCHANGED << client_log, returns, added_file >>
       ELSE IF ~check_permission(FILES_IMPORT_DELETE)
       THEN /\ hy_pc' = "returned"
            /\ returns' = Append(returns, Return("add_file", FileHash, Nothing))
            /\ UNCHANGED << client_log, added_file >>
       ELSE \/ /\ hy_pc' = "raised"
               /\ client_log' = Append(client_log,
                                       ClientCall("add_file", "add_file", FileHash))
               /\ UNCHANGED << returns, added_file >>
            \/ \E status \in AddedFileStatus,
                  destination_page_name \in BOOLEAN, page_found \in BOOLEAN :
                   LET added_content == Added(status, FileHash) IN
                   /\ page_found => destination_page_name /\ check_permission(PAGES)
                   /\ hy_pc' = "returned"
                   /\ added_file' = Insert0(added_file, added_content)
                   /\ client_log' =
                          client_log \o add_file(destination_page_name, page_found)
                              \o (IF tags THEN add_tags(FileHash) ELSE << >>)
                              \o (IF urls # << >> THEN add_urls(FileHash) ELSE << >>)
                   /\ returns' =
                          returns
                              \o << Return("add_file", FileHash, added_content) >>
                              \o (IF tags
                                  THEN << Return("add_tags", FileHash, Nothing) >>
                                  ELSE << >>)
                              \o (IF urls # << >>
                                  THEN << Return("add_urls", FileHash, Nothing) >>
                                  ELSE << >>)
    /\ UNCHANGED << coreVars, asyncVars, mainVars, hydrusConfig, url_idx, elapsed, polls >>

\* get_file(file_hash)
GetFile ==
    /\ hy_pc = "get_file"
    /\ hy_pc' = "returned"
    /\ IF ~check_permission(FILES_SEARCH_FETCH) \/ file_hash = ""
       THEN /\ returns' = Append(returns, Return("get_file", file_hash, Nothing))
            /\ UNCHANGED client_log
       ELSE /\ client_log' = Append(client_log,
                                    ClientCall("get_file", "get_file", file_hash))
            /\ returns' = Append(returns,
                    Return("get_file", file_hash, Added(SUCCESSFULLY_IMPORTED, file_hash)))
    /\ UNCHANGED << coreVars, asyncVars, mainVars, hydrusConfig,
                    url_idx, elapsed, polls, added_file >>

\* A wrapper with some permissions, on which import_content or get_file is
\* called with some arguments.
InitHydrus ==
    /\ DeliveryIdle
    /\ PoolIdle
    /\ HandlerIdle
    /\ SauceIdle
    /\ AsyncIdle
    /\ MainIdle
    /\ permissions \in SUBSET HydrusPermissions
    /\ default_tags_namespace \in BOOLEAN
    /\ \/ /\ content_file \in BOOLEAN
          /\ urls \in UrlLists
          /\ tags \in BOOLEAN
          /\ file_hash = ""
          /\ hy_pc = IF urls # << >> THEN "url" ELSE "file"
       \/ /\ content_file = FALSE
          /\ urls = << >>
          /\ tags = FALSE
          /\ file_hash \in { "", FileHash }
          /\ hy_pc = "get_file"
    /\ url_idx = 1
    /\ elapsed = 0
    /\ polls = 0
    /\ client_log = << >>
    /\ returns = << >>
    /\ added_file = << >>

NextHydrus == AddFileFromUrl \/ PollRound \/ AddFile \/ GetFile

SpecHydrus == InitHydrus /\ [][NextHydrus]_vars

\* import_content called with a single URL: one call of add_file_from_url.
InitPolling == InitHydrus /\ Len(urls) = 1

NextPolling == AddFileFromUrl \/ PollRound \/ AddFile

SpecPolling == InitPolling /\ [][NextPolling]_vars

\* The polling loop is a loop of one thread of control: it takes its next
\* round.
SpecPollingFair == SpecPolling /\ WF_vars(PollRound)

\* The permission each guarded operation asks for.
Requires(op) ==
    CASE op = "add_file" -> FILES_IMPORT_DELETE
      [] op = "add_file_from_url" -> URL_IMPORT_EDIT
      [] op = "add_tags" -> TAGS_EDIT
      [] op = "add_urls" -> URL_IMPORT_EDIT
      [] op = "get_file" -> FILES_SEARCH_FETCH

GuardedOps == { "add_file", "add_file_from_url", "add_tags", "add_urls", "get_file" }

\* C24: an operation among add_file, add_file_from_url, add_tags, add_urls
\* and get_file whose permission the access key lacks makes no call to the
\* Hydrus client, so the store is left as it was, and every return of it is
\* None.
C24_NoPermissionNoCall ==
    \A op \in GuardedOps :
        Requires(op) \notin permissions =>
            /\ \A i \in 1..Len(client_log) : client_log[i].op # op
            /\ \A i \in 1..Len(returns) :
                   returns[i].op = op => returns[i].value = Nothing

\* import_content has returned after add_file_from_url, add_tags and add_urls
\* were each refused for want of their permission, while add_file, whose
\* permission is held, reached the client.
C24_Witness ==
    /\ hy_pc = "returned"
    /\ permissions = { FILES_IMPORT_DELETE }
    /\ \E i \in 1..Len(returns) : returns[i].op = "add_file_from_url"
    /\ \E i \in 1..Len(returns) : returns[i].op = "add_tags"
    /\ \E i \in 1..Len(returns) : returns[i].op = "add_urls"
    /\ \E i \in 1..Len(client_log) : client_log[i].call = "add_file"

\* The positions in the client log of the calls named call.
CallsOf(call) == { i \in 1..Len(client_log) : client_log[i].call = call }

\* The argument of each call named call, in the order of the calls.
ArgsOf(call) ==
    LET picked == SelectSeq(client_log, LAMBDA c : c.call = call)
    IN  [i \in 1..Len(picked) |-> picked[i].arg]

\* What add_file_from_url returned, call after call, leaving out None.
UrlResults ==
    LET picked == SelectSeq(returns,
                      LAMBDA r : r.op = "add_file_from_url" /\ r.value # Nothing)
    IN  [i \in 1..Len(picked) |-> picked[i].value]

\* What add_file returned, if it returned something.
FileResults ==
    LET picked == SelectSeq(returns,
                      LAMBDA r : r.op = "add_file" /\ r.value # Nothing)
    IN  [i \in 1..Len(picked) |-> picked[i].value]

\* The store took the file: it imported it or had it already.
AddedSuccessfully(added_content) ==
    added_content.status \in { SUCCESSFULLY_IMPORTED, ALREADY_IN_DATABASE }

\* The calls that attach something to the file passed directly.
AttachedToFile ==
    { i \in 1..Len(client_log) :
          /\ client_log[i].arg = FileHash
          /\ client_log[i].call \in { "add_tags", "associate_url" } }

\* C23 (URLs first, in order): the URLs are submitted in the order of urls,
\* and all of them before the file itself is added.
C23_UrlsFirst ==
    /\ \E n \in 0..Len(urls) : ArgsOf("add_url") = SubSeq(urls, 1, n)
    /\ \A i \in CallsOf("add_url"), j \in CallsOf("add_file") : i < j
    /\ CallsOf("add_file") # {} /\ URL_IMPORT_EDIT \in permissions
           => ArgsOf("add_url") = urls

\* C23 (the list): import_content returns the directly added file's result
\* first, when there is one, then the URL results in the order of urls,
\* with no entry for a URL whose import returned nothing.
C23_ResultList ==
    hy_pc = "returned" /\ file_hash = "" =>
        /\ added_file = FileResults \o UrlResults
        /\ \A i \in 1..Len(UrlResults) : \E k \in 1..Len(urls) :
               UrlResults[i].hash = urls[k]
        /\ Len(FileResults) <= 1

\* C23: import_content issues all URL imports (in the order of urls) before
\* adding the file itself, attaches tags and URLs to the file only after the
\* file was added successfully, and returns a list whose first entry is the
\* directly added file's result followed by the URL results in the order of
\* urls, with no entry for a URL whose import returned nothing.
C23_ImportOrder ==
    /\ C23_UrlsFirst
    /\ C23_ResultList
    /\ \A i \in AttachedToFile :
           /\ \E j \in CallsOf("add_file") : j < i
           /\ \E k \in 1..Len(FileResults) : AddedSuccessfully(FileResults[k])

\* The seconds add_file_from_url waits for a status, and between two polls.
WaitFor(url) == IF url = "https://a/video" THEN 600 ELSE 60
Between(url) == IF url = "https://a/video" THEN 30 ELSE 2

\* C25: after submitting a URL, add_file_from_url polls the store; a call
\* that ends with a status returns the status of that URL, a call that ends
\* with None has waited 60 seconds (600 for a URL containing 'video'), and
\* a round that ends nothing moves the clock on, so that there are at most
\* 30 rounds (20 for a video URL) and the call ends whatever the store
\* answers.
C25_PollingEnds ==
    /\ [](hy_pc = "poll" =>
              /\ elapsed = polls * Between(urls[url_idx])
              /\ elapsed <= WaitFor(urls[url_idx]))
    /\ [][hy_pc = "poll" /\ hy_pc' = "poll" =>
              /\ elapsed' = elapsed + Between(urls[url_idx])
              /\ returns' = returns]_vars
    /\ [][hy_pc = "poll" /\ returns' # returns =>
              LET r == returns'[Len(returns')] IN
              /\ Len(returns') = Len(returns) + 1
              /\ r.op = "add_file_from_url"
              /\ r.arg = urls[url_idx]
              /\ r.value = Nothing => elapsed >= WaitFor(urls[url_idx])
              /\ r.value # Nothing =>
                     /\ r.value.hash = urls[url_idx]
                     /\ elapsed < WaitFor(urls[url_idx])]_vars
    /\ (hy_pc = "poll") ~> (hy_pc # "poll")

\* A video URL was submitted, no status appeared, and the call gave up.
C25_Witness ==
    /\ URL_IMPORT_EDIT \in permissions
    /\ urls = << "https://a/video" >>
    /\ hy_pc = "file"
    /\ returns # << >>
    /\ returns[Len(returns)] = Return("add_file_from_url", "https://a/video", Nothing)
    /\ \E i \in 1..Len(client_log) : client_log[i].call = "add_url"

\* ---------------------------------------------------------------------
\* The process (__main__.py): the loop around main, and prepare_temp_folder
\* (tools.py).
\* ---------------------------------------------------------------------

\* How many times main is followed.
MaxRuns == 5

\* How asyncio.run(start_script()) may end, as main tells the cases apart.
StartScriptOutcomes ==
    { "returned", "DatabaseLocked_503", "DatabaseLocked_other",
      "ConnectionError_MaxRetryError", "ConnectionError_other",
      "Exception", "KeyboardInterrupt" }

Pauses_Only503(outcome) == outcome = "DatabaseLocked_503"

\* The failures main answers with time.sleep(CONF.TIME_TO_SLEEP).
Pauses(outcome) ==
    outcome \in { "DatabaseLocked_503", "ConnectionError_MaxRetryError" }

\* main begins: prepare_temp_folder removes the folder if it exists and
\* makes it anew. An error of the file system is logged and raised again,
\* which ends main in logger.catch; KeyboardInterrupt ends the process.
PrepareTempFolder ==
    /\ m_pc = "main"
    /\ main_runs < MaxRuns
    /\ main_runs' = main_runs + 1
    /\ slept' = FALSE
    /\ \/ /\ folder' = "empty"
          /\ failure' = "none"
          /\ m_pc' = "start_script"
       \/ /\ folder' \in { folder, "absent" }
          /\ failure' = "OSError"
          /\ m_pc' = "main"
       \/ /\ folder' \in { folder, "absent", "empty" }
          /\ failure' = "KeyboardInterrupt"
          /\ m_pc' = "exited"
    /\ UNCHANGED << coreVars, asyncVars, hydrusVars >>

\* asyncio.run(start_script()) ends, having left files in the folder or
\* not: main pauses, main ends (the exception, if any, in logger.catch), or
\* the process exits.
StartScript ==
    /\ m_pc = "start_script"
    /\ \E outcome \in StartScriptOutcomes :
           /\ failure' = outcome
           /\ m_pc' = IF outcome = "KeyboardInterrupt" THEN "exited"
                      ELSE IF Pauses(outcome) THEN "sleep"
                      ELSE "main"
    /\ folder' \in { "empty", "nonempty" }
    /\ UNCHANGED << coreVars, asyncVars, hydrusVars, slept, main_runs >>

\* time.sleep(CONF.TIME_TO_SLEEP) runs to its end or is interrupted.
Pause ==
    /\ m_pc = "sleep"
    /\ \/ /\ slept' = TRUE
          /\ m_pc' = "main"
          /\ UNCHANGED failure
       \/ /\ failure' = "KeyboardInterrupt"
          /\ m_pc' = "exited"
          /\ UNCHANGED slept
    /\ UNCHANGED << coreVars, asyncVars, hydrusVars, folder, main_runs >>

\* The process reaches its loop with the temp folder in any condition.
InitMain ==
    /\ DeliveryIdle
    /\ PoolIdle
    /\ HandlerIdle
    /\ SauceIdle
    /\ AsyncIdle
    /\ HydrusIdle
    /\ m_pc = "main"
    /\ folder \in { "absent", "empty", "nonempty" }
    /\ failure = "none"
    /\ slept = FALSE
    /\ main_runs = 0

NextMain == PrepareTempFolder \/ StartScript \/ Pause

SpecMain == InitMain /\ [][NextMain]_vars

\* The process leaves only through KeyboardInterrupt.
ExitsOnlyOnInterrupt == [](m_pc = "exited" => failure = "KeyboardInterrupt")

\* A Hydrus connection failure (DatabaseLocked with status 503, or a
\* ConnectionError wrapping MaxRetryError) sends main to its pause, and main
\* is not called again until the pause is over.
PausesOnConnectionFailure ==
    /\ [][m_pc = "start_script"
            /\ failure' \in { "DatabaseLocked_503", "ConnectionError_MaxRetryError" }
              => m_pc' = "sleep"]_vars
    /\ [](m_pc = "main"
            /\ failure \in { "DatabaseLocked_503", "ConnectionError_MaxRetryError" }
              => slept)

\* C26, as stated: the process runs main in an endless loop and exits only
\* on KeyboardInterrupt, pauses after a Hydrus connection failure before
\* main runs again, and every run of main starts by leaving the temp folder
\* existing and empty.
C26_MainLoop ==
    /\ ExitsOnlyOnInterrupt
    /\ PausesOnConnectionFailure
    /\ [][main_runs' # main_runs => folder' = "empty"]_vars

\* C26, amended: the process exits only on KeyboardInterrupt and pauses
\* after a Hydrus connection failure before main runs again; start_script
\* is started only with the temp folder existing and empty, and a run of
\* main in which prepare_temp_folder raises ends without starting
\* start_script, main being called again at once.
C26_MainLoop_Amended ==
    /\ ExitsOnlyOnInterrupt
    /\ PausesOnConnectionFailure
    /\ [](m_pc = "start_script" => folder = "empty")
    /\ [][main_runs' # main_runs /\ failure' = "none"
            => m_pc' = "start_script" /\ folder' = "empty"]_vars
    /\ [][main_runs' # main_runs /\ failure' = "OSError"
            => m_pc' = "main" /\ ~slept']_vars

\* main is about to run for the third time: its second run ended in a
\* ConnectionError wrapping MaxRetryError, after which the process paused,
\* start_script having left files in the folder.
C26_Witness ==
    /\ m_pc = "main"
    /\ main_runs = 2
    /\ failure = "ConnectionError_MaxRetryError"
    /\ slept
    /\ folder = "nonempty"

====
